---- MODULE Spec2Model ----
(***************************************************************************)
(* A model of pkg/plugins/scheduler.go: the CustomScheduler plugin of a    *)
(* Kubernetes scheduler.  New builds the plugin from its arguments,        *)
(* PreFilter is the gang admission gate, Score gives a node its raw score  *)
(* from its allocatable memory and NormalizeScore rescales the raw scores  *)
(* of one scheduling cycle into [MinNodeScore, MaxNodeScore].              *)
(*                                                                         *)
(* Go's int and int64 are 64 bits wide and wrap on overflow.  TLC's        *)
(* integers are narrower, so a 64-bit value is kept here as four 16-bit    *)
(* limbs <<w3, w2, w1, w0>> (most significant first) in two's complement,  *)
(* and the arithmetic of the code is done on the limbs, modulo 2^64.       *)
(*                                                                         *)
(* The loops of the code are recursive operators.  Each hands the value it *)
(* has computed so far to the next round through a variable bound over a   *)
(* one-element set (CHOOSE r \in {F(v) : v \in {e}} : TRUE is F(e)), so    *)
(* that the value is computed once per round, also inside ENABLED.         *)
(***************************************************************************)
EXTENDS Integers, Sequences, FiniteSets, TLC

(***************************************************************************)
(* 64-bit two's complement arithmetic                                      *)
(***************************************************************************)
LimbBase == 65536

SignLimb == 32768

Limbs == 4

Zero64 == <<0, 0, 0, 0>>

MinInt64 == <<SignLimb, 0, 0, 0>>

MaxInt64 == <<SignLimb - 1, LimbBase - 1, LimbBase - 1, LimbBase - 1>>

\* a + b modulo 2^64.
Add64(a, b) ==
    LET s0 == a[4] + b[4]
        s1 == a[3] + b[3] + (s0 \div LimbBase)
        s2 == a[2] + b[2] + (s1 \div LimbBase)
        s3 == a[1] + b[1] + (s2 \div LimbBase)
    IN  <<s3 % LimbBase, s2 % LimbBase, s1 % LimbBase, s0 % LimbBase>>

\* -a modulo 2^64 (Go's unary minus: -MinInt64 = MinInt64).
Neg64(a) ==
    Add64(<<LimbBase - 1 - a[1], LimbBase - 1 - a[2],
            LimbBase - 1 - a[3], LimbBase - 1 - a[4]>>, <<0, 0, 0, 1>>)

\* The 64-bit value of a small integer n, -2^31 < n < 2^31.
FromInt(n) ==
    IF n >= 0 THEN <<0, 0, n \div LimbBase, n % LimbBase>>
    ELSE Neg64(<<0, 0, (-n) \div LimbBase, (-n) % LimbBase>>)

\* a - b modulo 2^64.
Sub64(a, b) == Add64(a, Neg64(b))

\* a * k modulo 2^64, for a small multiplier 0 <= k < 2^15.
MulSmall64(a, k) ==
    LET p0 == a[4] * k
        p1 == a[3] * k + (p0 \div LimbBase)
        p2 == a[2] * k + (p1 \div LimbBase)
        p3 == a[1] * k + (p2 \div LimbBase)
    IN  <<p3 % LimbBase, p2 % LimbBase, p1 % LimbBase, p0 % LimbBase>>

IsNeg64(a) == a[1] >= SignLimb

\* a < b, both read as unsigned 64-bit values.
ULess64(a, b) ==
    \/ a[1] < b[1]
    \/ a[1] = b[1] /\ a[2] < b[2]
    \/ a[1] = b[1] /\ a[2] = b[2] /\ a[3] < b[3]
    \/ a[1] = b[1] /\ a[2] = b[2] /\ a[3] = b[3] /\ a[4] < b[4]

\* a < b, both read as signed 64-bit values.
Less64(a, b) ==
    IF IsNeg64(a) # IsNeg64(b) THEN IsNeg64(a) ELSE ULess64(a, b)

\* Bit i (0 = least significant) of a.
Bit64(a, i) == (a[Limbs - (i \div 16)] \div (2 ^ (i % 16))) % 2

\* 2 * a + bit, modulo 2^64.
Shl1(a, bit) ==
    LET s0 == 2 * a[4] + bit
        s1 == 2 * a[3] + (s0 \div LimbBase)
        s2 == 2 * a[2] + (s1 \div LimbBase)
        s3 == 2 * a[1] + (s2 \div LimbBase)
    IN  <<s3 % LimbBase, s2 % LimbBase, s1 % LimbBase, s0 % LimbBase>>

\* Unsigned long division, one bit of the dividend n per step from bit i
\* down to bit 0; qr = <<q, r>> is the quotient and the remainder so far.
RECURSIVE UDivStep(_, _, _, _)
UDivStep(n, d, i, qr) ==
    IF i < 0 THEN qr[1]
    ELSE CHOOSE res \in
            { UDivStep(n, d, i - 1,
                       IF ULess64(r1, d) THEN <<Shl1(qr[1], 0), r1>>
                       ELSE <<Shl1(qr[1], 1), Sub64(r1, d)>>) :
              r1 \in {Shl1(qr[2], Bit64(n, i))} } : TRUE

\* Go's a / b on int64, b # 0: the quotient truncated toward zero, and
\* MinInt64 / -1 = MinInt64.
Div64(a, b) ==
    LET ua == IF IsNeg64(a) THEN Neg64(a) ELSE a
        ub == IF IsNeg64(b) THEN Neg64(b) ELSE b
        q  == UDivStep(ua, ub, 63, <<Zero64, Zero64>>)
    IN  IF IsNeg64(a) # IsNeg64(b) THEN Neg64(q) ELSE q

(***************************************************************************)
(* Strings.  A label value is a sequence of one-character strings, so that *)
(* strconv.Atoi can be computed on it character by character.              *)
(***************************************************************************)
DigitChars == <<"0", "1", "2", "3", "4", "5", "6", "7", "8", "9">>

IsDigit(c) == \E d \in 1..Len(DigitChars) : DigitChars[d] = c

DigitVal(c) == (CHOOSE d \in 1..Len(DigitChars) : DigitChars[d] = c) - 1

\* strconv's result: the value and the error ("" is nil).
AtoiOK(n) == [n |-> n, err |-> ""]

AtoiErr(n, e) == [n |-> n, err |-> e]

\* The loop n = n*10 + int(ch) of Atoi's fast path over the digits s[i..].
RECURSIVE FastDigits(_, _, _)
FastDigits(s, i, n) ==
    IF i > Len(s) THEN n
    ELSE CHOOSE res \in
            { FastDigits(s, i + 1, n1) :
              n1 \in {Add64(MulSmall64(n, 10), FromInt(DigitVal(s[i])))} } : TRUE

\* maxUint64/10 + 1, the cutoff of strconv.ParseUint in base 10.
UintCutoff == <<6553, 39321, 39321, 39322>>

\* strconv.ParseUint(s, 10, 64) over s[i..]: "syntax" on a character that is
\* no digit, "range" when the value passes 2^64 - 1.
RECURSIVE ParseUint(_, _, _)
ParseUint(s, i, n) ==
    IF i > Len(s) THEN AtoiOK(n)
    ELSE IF ~IsDigit(s[i]) THEN AtoiErr(Zero64, "syntax")
    ELSE IF ~ULess64(n, UintCutoff) THEN AtoiErr(Zero64, "range")
    ELSE CHOOSE res \in
            { IF ULess64(n1, n10) THEN AtoiErr(Zero64, "range")
              ELSE ParseUint(s, i + 1, n1) :
              n10 \in {MulSmall64(n, 10)},
              n1 \in {Add64(MulSmall64(n, 10), FromInt(DigitVal(s[i])))} } : TRUE

\* strconv.ParseInt(s, 10, 0) on a 64-bit platform, for s with body as
\* its digits: the sign is taken off, the digits go to ParseUint and the
\* value is checked against the signed range.
ParseIntOf(s, body) ==
    IF Len(body) = 0 THEN AtoiErr(Zero64, "syntax")
    ELSE CHOOSE res \in
            { IF un.err # "" THEN un
              ELSE IF s[1] # "-" /\ ~ULess64(un.n, MinInt64)
                   THEN AtoiErr(MaxInt64, "range")
              ELSE IF s[1] = "-" /\ ULess64(MinInt64, un.n)
                   THEN AtoiErr(MinInt64, "range")
              ELSE AtoiOK(IF s[1] = "-" THEN Neg64(un.n) ELSE un.n) :
              un \in {ParseUint(body, 1, Zero64)} } : TRUE

\* The longest string Atoi's fast path takes is one shorter than this.
FastPathLen == 19

\* strconv.Atoi(s) on a 64-bit platform, for s with body as its digits: the
\* fast path for 0 < len(s) < 19, ParseInt for the rest.
AtoiOf(s, body) ==
    IF Len(s) = 0 THEN AtoiErr(Zero64, "syntax")
    ELSE IF Len(s) < FastPathLen
    THEN IF Len(body) < 1 THEN AtoiErr(Zero64, "syntax")
         ELSE IF \E i \in 1..Len(body) : ~IsDigit(body[i])
              THEN AtoiErr(Zero64, "syntax")
         ELSE CHOOSE res \in
                 { AtoiOK(IF s[1] = "-" THEN Neg64(n) ELSE n) :
                   n \in {FastDigits(body, 1, Zero64)} } : TRUE
    ELSE ParseIntOf(s, body)

\* strconv.Atoi(str): the sign, when there is one, is the first character.
Atoi(str) ==
    CHOOSE res \in
        { AtoiOf(s, IF Len(s) > 0 /\ s[1] \in {"+", "-"} THEN Tail(s) ELSE s) :
          s \in {str} } : TRUE

(***************************************************************************)
(* Constants of the plugin and of the scheduler framework                  *)
(***************************************************************************)
groupNameLabel == "podGroup"

minAvailableLabel == "minAvailable"

leastMode == "Least"

mostMode == "Most"

MinNodeScore == 0

MaxNodeScore == 100

Success == "Success"

Error == "Error"

Unschedulable == "Unschedulable"

\* framework.NewStatus(code, reason)
NewStatus(code, reason) == [code |-> code, reason |-> reason]

\* No call has returned yet.
NoStatus == NewStatus("", "")

(***************************************************************************)
(* Bounds of the model                                                     *)
(***************************************************************************)
\* Longest minAvailable label value built from LabelChars.
MaxLabelLen == 2

\* Pods the informer cache can hold, the pod under PreFilter among them.
MaxPods == 2

\* Candidate nodes of one scoring cycle.
MaxNodes == 2

\* PreFilter attempts that are told apart; the count saturates here.
MaxAttempts == 2

(***************************************************************************)
(* Inputs                                                                  *)
(***************************************************************************)
LabelChars == {"0", "1", "2", "-", "+", "x"}

RECURSIVE StringsUpTo(_)
StringsUpTo(n) ==
    IF n = 0 THEN {<<>>}
    ELSE LET shorter == StringsUpTo(n - 1)
         IN  shorter \cup {Append(t, c) : t \in shorter, c \in LabelChars}

\* minAvailable values at and around the ends of the 64-bit range.
BigLabels ==
    { <<"9", "2", "2", "3", "3", "7", "2", "0", "3", "6", "8", "5", "4", "7", "7", "5", "8", "0", "7">>,
      <<"9", "2", "2", "3", "3", "7", "2", "0", "3", "6", "8", "5", "4", "7", "7", "5", "8", "0", "8">>,
      <<"-", "9", "2", "2", "3", "3", "7", "2", "0", "3", "6", "8", "5", "4", "7", "7", "5", "8", "0", "8">>,
      <<"-", "9", "2", "2", "3", "3", "7", "2", "0", "3", "6", "8", "5", "4", "7", "7", "5", "8", "0", "9">>,
      <<"9", "9", "9", "9", "9", "9", "9", "9", "9", "9", "9", "9", "9", "9", "9", "9", "9", "9", "9", "9">> }

MinAvailableValues == StringsUpTo(MaxLabelLen) \cup BigLabels

GroupValues == {<<"a">>, <<"b">>}

\* A label map (pod.Labels) is a set of <<key, value>> pairs, one per key.
HasLabel(labels, key) == \E kv \in labels : kv[1] = key

LabelOf(labels, key) == (CHOOSE kv \in labels : kv[1] = key)[2]

PodLabelMaps ==
    { g \cup m :
        g \in {{}} \cup {{<<groupNameLabel, v>>} : v \in GroupValues},
        m \in {{}} \cup {{<<minAvailableLabel, v>>} : v \in MinAvailableValues} }

\* Labels of the other pods in the cache: only their group matters.
OtherPodLabelMaps == {{}} \cup {{<<groupNameLabel, v>>} : v \in GroupValues}

\* Pod 1 is the pod under PreFilter; the others are 2..MaxPods.
PodNames == 1..MaxPods

ThePod == 1

\* The informer caches for a pod whose labels are l: any subset of the
\* pods, the pod itself (when cached) with its own labels.
PodCaches(l) ==
    { [p \in S |-> IF p = ThePod THEN l ELSE o[p]] :
        S \in SUBSET PodNames,
        o \in [PodNames \ {ThePod} -> OtherPodLabelMaps] }

\* Allocatable memory values of the nodes: 2^57 in the middle of the range.
MemoryValues ==
    { MinInt64, FromInt(-1), Zero64, FromInt(1000), FromInt(2000),
      <<512, 0, 0, 0>>, MaxInt64 }

\* The snapshot's answer for a node: its NodeInfo, or an error.
NodeInfoValues ==
    {[found |-> TRUE, Memory |-> m] : m \in MemoryValues}
        \cup {[found |-> FALSE, Memory |-> Zero64]}

\* A JSON value of the plugin arguments: a string, or something else.
JStr(t) == [kind |-> "string", s |-> t]

JNum(t) == [kind |-> "number", s |-> t]

\* A JSON member "key": value.
JMember(k, v) == [key |-> k, val |-> v]

\* args.Raw: whether it is well-formed JSON, and the members of the object.
Raw(ok, members) == [syntaxOK |-> ok, members |-> members]

RawArgs ==
    { Raw(TRUE, <<>>),
      Raw(TRUE, <<JMember("mode", JStr("Least"))>>),
      Raw(TRUE, <<JMember("mode", JStr("Most"))>>),
      Raw(TRUE, <<JMember("MODE", JStr("Most"))>>),
      Raw(TRUE, <<JMember("mode", JStr("least"))>>),
      Raw(TRUE, <<JMember("mode", JStr("MOST"))>>),
      Raw(TRUE, <<JMember("mode", JStr(""))>>),
      Raw(TRUE, <<JMember("mode", JStr("Balanced"))>>),
      Raw(TRUE, <<JMember("other", JStr("Most"))>>),
      Raw(TRUE, <<JMember("mode", JNum("5"))>>),
      Raw(TRUE, <<JMember("mode", JStr("Least")), JMember("mode", JStr("Most"))>>),
      Raw(TRUE, <<JMember("mode", JStr("Least")), JMember("mode", JNum("5"))>>),
      Raw(TRUE, <<JMember("mode", JStr("Most")), JMember("mode", JStr("x"))>>),
      Raw(FALSE, <<JMember("mode", JStr("Most"))>>),
      Raw(FALSE, <<>>) }

\* obj: nil, a *runtime.Unknown holding Raw, or an object of another type.
NilObj == [type |-> "nil", Raw |-> Raw(TRUE, <<>>)]

Objects ==
    {NilObj} \cup {[type |-> "Unknown", Raw |-> r] : r \in RawArgs}
             \cup {[type |-> "Other", Raw |-> Raw(TRUE, <<>>)]}

(***************************************************************************)
(* State                                                                   *)
(***************************************************************************)
VARIABLES
    obj,         \* the arguments New is called with
    phase,       \* where the plugin and the scoring cycle stand
    cs,          \* the plugin New returned: [scoreMode], or NoPlugin
    newErr,      \* the error New returned ("" is nil)
    pod,         \* pod.Labels of the pod under PreFilter
    podCache,    \* the pods of the informer cache, with their labels
    listerOK,    \* whether the pod lister answers without an error
    pfStatus,    \* the status the last PreFilter call returned
    attempts,    \* PreFilter calls so far (saturates at MaxAttempts)
    nodeInfos,   \* the snapshot: NodeInfo (or an error) of each candidate node
    scored,      \* the nodes Score has returned for in this cycle
    scores,      \* the framework.NodeScoreList of this cycle
    rawScores,   \* scores as NormalizeScore received it
    scStatus     \* the status the last Score or NormalizeScore call returned

vars == <<obj, phase, cs, newErr, pod, podCache, listerOK, pfStatus, attempts,
          nodeInfos, scored, scores, rawScores, scStatus>>

gateVars == <<pod, podCache, listerOK, pfStatus, attempts>>

cycleVars == <<nodeInfos, scored, scores, rawScores, scStatus>>

NoPlugin == [scoreMode |-> "<nil>"]

(***************************************************************************)
(* New                                                                     *)
(***************************************************************************)
\* The field a JSON key is decoded into: encoding/json matches the key to
\* the tag "mode" without regard to case.
FoldKey(k) == IF k \in {"mode", "Mode", "MODE"} THEN "mode" ELSE k

\* json.Unmarshal(args.Raw, &csArgs) over the members from i on: the Mode
\* decoded and whether an error is returned.  A syntax error leaves csArgs
\* untouched; a value of the wrong type for Mode is skipped and reported.
RECURSIVE UnmarshalFrom(_, _, _)
UnmarshalFrom(members, i, acc) ==
    IF i > Len(members) THEN acc
    ELSE LET m == members[i]
         IN  IF FoldKey(m.key) # "mode" THEN UnmarshalFrom(members, i + 1, acc)
             ELSE IF m.val.kind = "string"
                  THEN UnmarshalFrom(members, i + 1, [acc EXCEPT !.Mode = m.val.s])
             ELSE UnmarshalFrom(members, i + 1, [acc EXCEPT !.err = TRUE])

Unmarshal(raw) ==
    IF ~raw.syntaxOK THEN [Mode |-> "", err |-> TRUE]
    ELSE UnmarshalFrom(raw.members, 1, [Mode |-> "", err |-> FALSE])

\* NewResult with only the empty mode refused.
NewResultEmptyOnly(o) ==
    IF o.type = "nil"
    THEN [cs |-> [scoreMode |-> leastMode], err |-> "", panic |-> FALSE]
    ELSE IF o.type # "Unknown"
    THEN [cs |-> NoPlugin, err |-> "", panic |-> TRUE]
    ELSE LET mode == Unmarshal(o.Raw).Mode
         IN  IF mode = ""
             THEN [cs |-> NoPlugin, err |-> "invalid mode, got " \o mode,
                   panic |-> FALSE]
             ELSE [cs |-> [scoreMode |-> mode], err |-> "", panic |-> FALSE]

\* What New(obj, h) returns: the plugin and the error; panic when the type
\* assertion obj.(*runtime.Unknown) fails.
NewResult(o) ==
    IF o.type = "nil"
    THEN [cs |-> [scoreMode |-> leastMode], err |-> "", panic |-> FALSE]
    ELSE IF o.type # "Unknown"
    THEN [cs |-> NoPlugin, err |-> "", panic |-> TRUE]
    ELSE LET mode == Unmarshal(o.Raw).Mode
         IN  IF mode # leastMode /\ mode # mostMode
             THEN [cs |-> NoPlugin, err |-> "invalid mode, got " \o mode,
                   panic |-> FALSE]
             ELSE [cs |-> [scoreMode |-> mode], err |-> "", panic |-> FALSE]

New ==
    /\ phase = "start"
    /\ LET r == NewResult(obj)
       IN  /\ cs' = r.cs
           /\ newErr' = r.err
           /\ phase' = IF r.panic THEN "panicked"
                       ELSE IF r.err # "" THEN "failed" ELSE "ready"
    /\ UNCHANGED <<obj, gateVars, cycleVars>>

(***************************************************************************)
(* PreFilter                                                               *)
(***************************************************************************)
\* Lister().List(selector) for the selector podGroup = group: the cached
\* pods that carry the label with that value.
List(cache, group) ==
    { p \in DOMAIN cache : /\ HasLabel(cache[p], groupNameLabel)
                           /\ LabelOf(cache[p], groupNameLabel) = group }

\* AdmissionStatus with len(pods) <= minAvailable for the comparison.
AdmissionStatusOffByOne(minAvailable, group, cache, ok) ==
    IF ~ok
    THEN NewStatus(Error, "Error listing pods.")
    ELSE CHOOSE st \in
            { IF ~Less64(minAvailable, len)
              THEN NewStatus(Unschedulable, "Not enough pods in the group.")
              ELSE NewStatus(Success, "") :
              len \in {FromInt(Cardinality(List(cache, group)))} } : TRUE

\* AdmissionStatus with the lister's error dropped: a failed listing gives
\* no pods.
AdmissionStatusErrDropped(minAvailable, group, cache, ok) ==
    CHOOSE st \in
        { IF Less64(len, minAvailable)
          THEN NewStatus(Unschedulable, "Not enough pods in the group.")
          ELSE NewStatus(Success, "") :
          len \in {FromInt(IF ok THEN Cardinality(List(cache, group)) ELSE 0)} } : TRUE

\* AdmissionStatus with a selector that selects every pod.
AdmissionStatusEveryPod(minAvailable, group, cache, ok) ==
    IF ~ok
    THEN NewStatus(Error, "Error listing pods.")
    ELSE CHOOSE st \in
            { IF Less64(len, minAvailable)
              THEN NewStatus(Unschedulable, "Not enough pods in the group.")
              ELSE NewStatus(Success, "") :
              len \in {FromInt(Cardinality(DOMAIN cache))} } : TRUE

\* Lines 79-91 of PreFilter, for the parsed minimum and the group: the
\* listing, its error and the comparison of len(pods) with minAvailable.
AdmissionStatus(minAvailable, group, cache, ok) ==
    IF ~ok
    THEN NewStatus(Error, "Error listing pods.")
    ELSE CHOOSE st \in
            { IF Less64(len, minAvailable)
              THEN NewStatus(Unschedulable, "Not enough pods in the group.")
              ELSE NewStatus(Success, "") :
              len \in {FromInt(Cardinality(List(cache, group)))} } : TRUE

\* The status PreFilter returns for a pod with these labels, over this
\* cache, with the lister working or not.
PreFilterStatus(labels, cache, ok) ==
    IF ~HasLabel(labels, groupNameLabel) \/ ~HasLabel(labels, minAvailableLabel)
    THEN NewStatus(Error, "Invalid label.")
    ELSE CHOOSE st \in
            { IF minAvailable.err # ""
              THEN NewStatus(Error, "Invalid minAvailable value.")
              ELSE AdmissionStatus(minAvailable.n, group, cache, ok) :
              group \in {LabelOf(labels, groupNameLabel)},
              minAvailable \in {Atoi(LabelOf(labels, minAvailableLabel))} } : TRUE

PreFilter ==
    /\ phase = "ready"
    /\ pfStatus' = PreFilterStatus(pod, podCache, listerOK)
    /\ attempts' = IF attempts < MaxAttempts THEN attempts + 1 ELSE attempts
    /\ UNCHANGED <<obj, phase, cs, newErr, pod, podCache, listerOK, cycleVars>>

(***************************************************************************)
(* Score                                                                   *)
(***************************************************************************)
\* What Score returns for a node: the raw score and the status.
ScoreResult(mode, info) ==
    IF ~info.found
    THEN [score |-> Zero64, status |-> NewStatus(Error, "Error getting node info")]
    ELSE LET memory == info.Memory
             score  == IF mode = leastMode THEN Neg64(memory)
                       ELSE IF mode = mostMode THEN memory
                       ELSE Zero64
         IN  [score |-> score, status |-> NewStatus(Success, "")]

\* Score for one node the cycle has not scored yet.  The framework stores
\* the score in the node's entry of the list and gives the cycle up when a
\* Score call fails.
Score(nodeName) ==
    /\ phase = "ready"
    /\ nodeName \in DOMAIN nodeInfos
    /\ nodeName \notin scored
    /\ LET r == ScoreResult(cs.scoreMode, nodeInfos[nodeName])
       IN  /\ scStatus' = r.status
           /\ scores' = [scores EXCEPT ![nodeName].Score = r.score]
           /\ phase' = IF r.status.code = Success THEN "ready" ELSE "aborted"
    /\ scored' = scored \cup {nodeName}
    /\ UNCHANGED <<obj, cs, newErr, gateVars, nodeInfos, rawScores>>

(***************************************************************************)
(* NormalizeScore                                                          *)
(***************************************************************************)
\* The loops of lines 131-138: the least and the greatest Score of the list
\* from entry i on, starting from MaxInt64 and MinInt64.
RECURSIVE MinScoreFrom(_, _, _)
MinScoreFrom(list, i, minScore) ==
    IF i > Len(list) THEN minScore
    ELSE MinScoreFrom(list, i + 1,
                      IF Less64(list[i].Score, minScore) THEN list[i].Score
                      ELSE minScore)

RECURSIVE MaxScoreFrom(_, _, _)
MaxScoreFrom(list, i, maxScore) ==
    IF i > Len(list) THEN maxScore
    ELSE MaxScoreFrom(list, i + 1,
                      IF Less64(maxScore, list[i].Score) THEN list[i].Score
                      ELSE maxScore)

\* NormalizedScores with the halving left out of the degenerate case.
NormalizedScoresNoHalving(list) ==
    LET minScore   == MinScoreFrom(list, 1, MaxInt64)
        maxScore   == MaxScoreFrom(list, 1, MinInt64)
        rangeScore == Sub64(maxScore, minScore)
    IN  IF rangeScore = Zero64
        THEN [i \in DOMAIN list |->
                [list[i] EXCEPT !.Score =
                    FromInt(MinNodeScore + (MaxNodeScore - MinNodeScore))]]
        ELSE [i \in DOMAIN list |->
                [list[i] EXCEPT !.Score =
                    Add64(FromInt(MinNodeScore),
                          Div64(MulSmall64(Sub64(list[i].Score, minScore),
                                           MaxNodeScore - MinNodeScore),
                                rangeScore))]]

\* The list NormalizeScore leaves behind.
NormalizedScores(list) ==
    LET minScore   == MinScoreFrom(list, 1, MaxInt64)
        maxScore   == MaxScoreFrom(list, 1, MinInt64)
        rangeScore == Sub64(maxScore, minScore)
    IN  IF rangeScore = Zero64
        THEN [i \in DOMAIN list |->
                [list[i] EXCEPT !.Score =
                    FromInt(MinNodeScore + (MaxNodeScore - MinNodeScore) \div 2)]]
        ELSE [i \in DOMAIN list |->
                [list[i] EXCEPT !.Score =
                    Add64(FromInt(MinNodeScore),
                          Div64(MulSmall64(Sub64(list[i].Score, minScore),
                                           MaxNodeScore - MinNodeScore),
                                rangeScore))]]

\* NormalizeScore, called once every node of the cycle has its score.
NormalizeScore ==
    /\ phase = "ready"
    /\ scored = DOMAIN nodeInfos
    /\ rawScores' = scores
    /\ scores' = NormalizedScores(scores)
    /\ scStatus' = NewStatus(Success, "")
    /\ phase' = "normalized"
    /\ UNCHANGED <<obj, cs, newErr, gateVars, nodeInfos, scored>>

(***************************************************************************)
(* The informer and the host                                               *)
(***************************************************************************)
\* The informer adds another pod to the cache, or the pod under PreFilter.
InformerAdd(p, l) ==
    /\ p \notin DOMAIN podCache
    /\ l \in (IF p = ThePod THEN {pod} ELSE OtherPodLabelMaps)
    /\ podCache' = [q \in DOMAIN podCache \cup {p} |->
                        IF q = p THEN l ELSE podCache[q]]
    /\ UNCHANGED <<obj, phase, cs, newErr, pod, listerOK, pfStatus, attempts,
                   cycleVars>>

\* The informer drops a pod from the cache.
InformerDelete(p) ==
    /\ p \in DOMAIN podCache
    /\ podCache' = [q \in DOMAIN podCache \ {p} |-> podCache[q]]
    /\ UNCHANGED <<obj, phase, cs, newErr, pod, listerOK, pfStatus, attempts,
                   cycleVars>>

\* The host calls PreFilter again only for a pod that is still pending.
RetryPreFilter ==
    /\ pfStatus.code # Success
    /\ PreFilter

(***************************************************************************)
(* Specifications                                                          *)
(***************************************************************************)
\* No scoring cycle is under way.
NoCycle ==
    /\ nodeInfos = <<>>
    /\ scored = {}
    /\ scores = <<>>
    /\ rawScores = <<>>
    /\ scStatus = NoStatus

\* The admission gate: a plugin built with no arguments, a pod with any
\* labels, any cache, a lister that works or fails.
Init ==
    /\ obj = NilObj
    /\ phase = "ready"
    /\ cs = NewResult(NilObj).cs
    /\ newErr = ""
    /\ pod \in PodLabelMaps
    /\ podCache \in PodCaches(pod)
    /\ listerOK \in BOOLEAN
    /\ pfStatus = NoStatus
    /\ attempts = 0
    /\ NoCycle

Next == PreFilter

Spec == Init /\ [][Next]_vars

\* The host retrying PreFilter for a pod with valid labels while the informer
\* changes the cache; the lister works.
RetryInit ==
    /\ Init
    /\ listerOK
    /\ HasLabel(pod, groupNameLabel)
    /\ HasLabel(pod, minAvailableLabel)
    /\ Atoi(LabelOf(pod, minAvailableLabel)).err = ""

RetryNext ==
    \/ RetryPreFilter
    \/ \E p \in PodNames, l \in {pod} \cup OtherPodLabelMaps : InformerAdd(p, l)
    \/ \E p \in PodNames : InformerDelete(p)

RetrySpec == RetryInit /\ [][RetryNext]_vars /\ WF_vars(RetryPreFilter)

\* Construction and one scoring cycle: New with any arguments, Score for
\* every candidate node in any order, then NormalizeScore.
ScoreInit ==
    /\ obj \in Objects
    /\ phase = "start"
    /\ cs = NoPlugin
    /\ newErr = ""
    /\ pod = {}
    /\ podCache = <<>>
    /\ listerOK = TRUE
    /\ pfStatus = NoStatus
    /\ attempts = 0
    /\ \E n \in 1..MaxNodes :
          /\ nodeInfos \in [1..n -> NodeInfoValues]
          /\ scores = [i \in 1..n |-> [Name |-> i, Score |-> Zero64]]
    /\ scored = {}
    /\ rawScores = <<>>
    /\ scStatus = NoStatus

ScoreNext ==
    \/ New
    \/ \E nodeName \in 1..MaxNodes : Score(nodeName)
    \/ NormalizeScore

ScoreSpec == ScoreInit /\ [][ScoreNext]_vars

(***************************************************************************)
(* Properties of the admission gate                                        *)
(***************************************************************************)
\* The digits of a label value, its sign taken off.
Unsigned(s) == IF Len(s) > 0 /\ s[1] \in {"+", "-"} THEN Tail(s) ELSE s

\* s is written as an integer: an optional sign and at least one digit.
WrittenAsInteger(s) ==
    /\ Len(Unsigned(s)) >= 1
    /\ \A i \in 1..Len(Unsigned(s)) : IsDigit(Unsigned(s)[i])

\* The number a short digit string stands for.
RECURSIVE DecimalValue(_)
DecimalValue(d) ==
    IF Len(d) = 0 THEN 0
    ELSE 10 * DecimalValue(SubSeq(d, 1, Len(d) - 1)) + DigitVal(d[Len(d)])

\* c >= m, for a count c of cached pods and the integer m that s, a string
\* Atoi accepts, is written as: a string of more than 9 digits stands for a
\* number beyond any count, below it when negative and above it otherwise.
CountReaches(c, s) ==
    IF Len(Unsigned(s)) <= 9
    THEN c >= (IF s[1] = "-" THEN -1 ELSE 1) * DecimalValue(Unsigned(s))
    ELSE s[1] = "-"

BothLabels == HasLabel(pod, groupNameLabel) /\ HasLabel(pod, minAvailableLabel)

MinAvailableStr == LabelOf(pod, minAvailableLabel)

Parses == Atoi(MinAvailableStr).err = ""

\* The cached pods that carry the pod's group label value.
GroupSize ==
    Cardinality({ p \in DOMAIN podCache :
                    <<groupNameLabel, LabelOf(pod, groupNameLabel)>> \in podCache[p] })

Called == attempts > 0

\* C1: for a pod with both labels whose minAvailable parses as an integer m,
\* with the listing succeeding with c pods of the group, PreFilter returns
\* Success if and only if c >= m and Unschedulable otherwise; with m = 0 it
\* admits for every c.
AdmitsIffGroupReachesMin ==
    (Called /\ BothLabels /\ Parses /\ listerOK) =>
        /\ pfStatus.code = Success <=> CountReaches(GroupSize, MinAvailableStr)
        /\ pfStatus.code = Unschedulable <=> ~CountReaches(GroupSize, MinAvailableStr)
        /\ (WrittenAsInteger(MinAvailableStr)
              /\ Len(Unsigned(MinAvailableStr)) <= 9
              /\ DecimalValue(Unsigned(MinAvailableStr)) = 0)
           => pfStatus.code = Success

\* C1 witness: minAvailable "0", no pod of the group in the cache, admitted.
AdmittedEmptyGroupWithMinZero ==
    /\ Called /\ BothLabels /\ listerOK
    /\ MinAvailableStr = <<"0">>
    /\ GroupSize = 0
    /\ pfStatus.code = Success

\* C2: PreFilter returns Error when the podGroup label is absent, when the
\* minAvailable label is absent, when its value is no integer, and when the
\* listing fails; Unschedulable is returned only with both labels present,
\* the minimum parsed, the listing done and the count below the minimum.
InvalidInputIsError ==
    Called =>
        /\ ~HasLabel(pod, groupNameLabel) => pfStatus.code = Error
        /\ ~HasLabel(pod, minAvailableLabel) => pfStatus.code = Error
        /\ (BothLabels /\ (~WrittenAsInteger(MinAvailableStr) \/ ~Parses))
              => pfStatus.code = Error
        /\ ~listerOK => pfStatus.code = Error
        /\ pfStatus.code = Unschedulable =>
              /\ BothLabels /\ WrittenAsInteger(MinAvailableStr) /\ Parses
              /\ listerOK
              /\ ~CountReaches(GroupSize, MinAvailableStr)

\* C2 witness: valid labels, the listing fails, Error.
ListingFailureIsError ==
    /\ Called /\ BothLabels /\ Parses /\ ~listerOK
    /\ pfStatus.code = Error

\* C3: for a pod whose minAvailable label holds a negative integer,
\* PreFilter returns Error and does not admit the pod, whatever the count.
NegativeMinAvailableIsError ==
    (Called /\ BothLabels /\ Parses /\ listerOK
        /\ IsNeg64(Atoi(MinAvailableStr).n))
    => pfStatus.code = Error

(***************************************************************************)
(* Properties of the retried admission                                     *)
(***************************************************************************)
\* C9: while the host retries PreFilter for a pod with valid labels and the
\* cache changes, an attempt made with the count below minAvailable returns
\* Unschedulable and one made with the count at or above it returns Success,
\* whatever the earlier attempts saw; and if the count stays at or above
\* minAvailable from some point on, the pod is admitted in the end.
RetriesConverge ==
    /\ [][RetryPreFilter =>
            IF CountReaches(GroupSize, MinAvailableStr)
            THEN pfStatus'.code = Success
            ELSE pfStatus'.code = Unschedulable]_vars
    /\ (<>[]CountReaches(GroupSize, MinAvailableStr)) => <>(pfStatus.code = Success)

\* C9 witness: admitted at the second attempt or later, after an attempt
\* that left the pod pending.
AdmittedAfterRetry ==
    /\ attempts >= 2
    /\ pfStatus.code = Success
    /\ CountReaches(GroupSize, MinAvailableStr)

(***************************************************************************)
(* Properties of Score and NormalizeScore                                  *)
(***************************************************************************)
\* a <= b, as signed 64-bit values.
LessEq64(a, b) == ~Less64(b, a)

\* Every node of the cycle has its raw score and none is normalized yet.
AllScored == phase = "ready" /\ scored = DOMAIN nodeInfos

Normalized == phase = "normalized"

Memory(i) == nodeInfos[i].Memory

\* C4: for two nodes with allocatable memory m1 < m2, any signed 64-bit
\* values, Score in mode Least gives the m1 node the strictly greater raw
\* score and in mode Most the strictly smaller one.
RawScoreStrictlyOrdered ==
    AllScored =>
        \A i, j \in DOMAIN nodeInfos :
            Less64(Memory(i), Memory(j)) =>
                /\ cs.scoreMode = leastMode => Less64(scores[j].Score, scores[i].Score)
                /\ cs.scoreMode = mostMode => Less64(scores[i].Score, scores[j].Score)

\* C5: after NormalizeScore every entry of the list lies in
\* [MinNodeScore, MaxNodeScore], for every list of signed 64-bit raw scores.
NormalizedWithinBounds ==
    Normalized =>
        \A i \in DOMAIN scores :
            /\ LessEq64(FromInt(MinNodeScore), scores[i].Score)
            /\ LessEq64(scores[i].Score, FromInt(MaxNodeScore))

AllRawEqual == \A i, j \in DOMAIN rawScores : rawScores[i].Score = rawScores[j].Score

\* C6: NormalizeScore preserves the order of a list whose raw scores are not
\* all equal: raw[i] < raw[j] gives normalized[i] <= normalized[j], equal raw
\* scores give equal normalized scores, and no entry changes its node.
NormalizePreservesOrder ==
    (Normalized /\ ~AllRawEqual) =>
        \A i, j \in DOMAIN scores :
            /\ scores[i].Name = rawScores[i].Name
            /\ Less64(rawScores[i].Score, rawScores[j].Score)
                  => LessEq64(scores[i].Score, scores[j].Score)
            /\ rawScores[i].Score = rawScores[j].Score
                  => scores[i].Score = scores[j].Score

\* C7: a list of one or more raw scores that are all equal is normalized to
\* the midpoint 50 in every entry, with status Success, whatever the common
\* raw score is.
AllEqualGivesMidpoint ==
    (Normalized /\ Len(rawScores) >= 1 /\ AllRawEqual) =>
        /\ \A i \in DOMAIN scores : scores[i] = [Name |-> i, Score |-> <<0, 0, 0, 50>>]
        /\ scStatus.code = Success

\* C7 witness: two nodes with the same raw score, not zero, normalized.
TwoEqualScoresNormalized ==
    /\ Normalized
    /\ Len(rawScores) = 2
    /\ rawScores[1].Score = rawScores[2].Score
    /\ rawScores[1].Score # Zero64

\* The mode the arguments supply: the last string given for the key mode, in
\* arguments that are well-formed JSON; "" when there is none.
SuppliedMode(o) ==
    LET ms == o.Raw.members
        at == { i \in 1..Len(ms) : ms[i].key \in {"mode", "Mode", "MODE"}
                                    /\ ms[i].val.kind = "string" }
    IN  IF ~o.Raw.syntaxOK \/ at = {} THEN ""
        ELSE ms[CHOOSE i \in at : \A k \in at : k <= i].val.s

IsMaxMemory(i) == \A j \in DOMAIN nodeInfos : LessEq64(Memory(j), Memory(i))

IsMinMemory(i) == \A j \in DOMAIN nodeInfos : LessEq64(Memory(i), Memory(j))

\* C10: for two or more nodes whose memory values are not all equal, Score
\* on every node and then NormalizeScore give, in mode Most, 100 to every
\* node with the greatest memory and 0 to every node with the least, and in
\* mode Least 100 to the least and 0 to the greatest.
ExtremesGetBoundScores ==
    (/\ Normalized
     /\ Len(scores) >= 2
     /\ \E i, j \in DOMAIN nodeInfos : Memory(i) # Memory(j))
    => \A i \in DOMAIN nodeInfos :
          /\ (cs.scoreMode = mostMode /\ IsMaxMemory(i))
                => scores[i].Score = FromInt(MaxNodeScore)
          /\ (cs.scoreMode = mostMode /\ IsMinMemory(i))
                => scores[i].Score = FromInt(MinNodeScore)
          /\ (cs.scoreMode = leastMode /\ IsMinMemory(i))
                => scores[i].Score = FromInt(MaxNodeScore)
          /\ (cs.scoreMode = leastMode /\ IsMaxMemory(i))
                => scores[i].Score = FromInt(MinNodeScore)
====
